---- MODULE Spec2Model ----
(***************************************************************************)
(* Model of main.py: upload a file to a vector store, poll the ingestion   *)
(* job, issue a file_search response, and clean up the remote resources.   *)
(* The model starts at the try statement of main() (main.py line 127),     *)
(* with the client already constructed.  Every call on the client is a     *)
(* step that either returns or raises.                                     *)
(***************************************************************************)
EXTENDS Integers, Sequences, FiniteSets, TLC

VARIABLES
    pc,                 \* control location (u_* upload_to_vector_store, c_* cleanup, m_* main)
    UPLOADED_FILE_ID,   \* the module global of main.py line 28
    remote,             \* ids of the resources that exist on the service
    u_vector_store,     \* local vector_store of upload_to_vector_store
    file_uploaded,      \* status of the last poll, "" before the first
    vector_store,       \* local vector_store of main
    response,           \* local response of main
    exc,                \* exception being handled or escaped, "" if none
    c_caller,           \* who called cleanup: "upload", "main", "" if not called
    c_plan,             \* the deletions the running cleanup call goes through
    ci,                 \* index of the next deletion in c_plan
    log,                \* history: client calls, returns and error reports
    clock,              \* history: seconds slept
    polls               \* history: status checks made

vars == <<pc, UPLOADED_FILE_ID, remote, u_vector_store, file_uploaded,
          vector_store, response, exc, c_caller, c_plan, ci, log, clock, polls>>

\* ---------------------------------------------------------------- bounds
MaxPolls == 4

\* ------------------------------------------------------------- constants
PollDelay == 5

FileEnv == "file-env"
FileNew == "file-1"
VsId == "vs-1"
RespId == "resp-1"
Unbound == "<unbound>"
NoneV == "None"

Statuses == {"in_progress", "cancelled", "completed", "failed"}

Ev(op, arg, res) == [op |-> op, arg |-> arg, res |-> res]

\* ------------------------------------------------------------ initial state
Init ==
    /\ pc = "u_check_id"
    /\ UPLOADED_FILE_ID \in {"", FileEnv}
    /\ remote \in (IF UPLOADED_FILE_ID = FileEnv THEN {{}, {FileEnv}} ELSE {{}})
    /\ u_vector_store = Unbound
    /\ file_uploaded = ""
    /\ vector_store = Unbound
    /\ response = Unbound
    /\ exc = ""
    /\ c_caller = ""
    /\ c_plan = <<>>
    /\ ci = 1
    /\ log = <<>>
    /\ clock = 0
    /\ polls = 0

\* --------------------------------------------------- upload_to_vector_store
\* An exception raised inside upload_to_vector_store is not caught there; it
\* reaches the except clause of main.
RaiseInTry(e) ==
    /\ pc' = "m_except"
    /\ exc' = e

UCheckFileId ==
    /\ pc = "u_check_id"
    /\ pc' = IF UPLOADED_FILE_ID = "" THEN "u_open" ELSE "u_create_vs"
    /\ UNCHANGED <<UPLOADED_FILE_ID, remote, u_vector_store, file_uploaded,
                   vector_store, response, exc, c_caller, c_plan, ci, log, clock, polls>>

UOpenFile ==
    /\ pc = "u_open"
    /\ \E ok \in BOOLEAN :
        IF ok
        THEN /\ pc' = "u_files_create"
             /\ UNCHANGED <<exc, log>>
        ELSE /\ RaiseInTry("OSError")
             /\ log' = Append(log, Ev("open", "", "raise"))
    /\ UNCHANGED <<UPLOADED_FILE_ID, remote, u_vector_store, file_uploaded,
                   vector_store, response, c_caller, c_plan, ci, clock, polls>>

UFilesCreate ==
    /\ pc = "u_files_create"
    /\ \E ok \in BOOLEAN :
        IF ok
        THEN /\ UPLOADED_FILE_ID' = FileNew
             /\ remote' = remote \cup {FileNew}
             /\ log' = Append(log, Ev("files.create", FileNew, "ok"))
             /\ pc' = "u_create_vs"
             /\ UNCHANGED exc
        ELSE /\ RaiseInTry("APIError")
             /\ log' = Append(log, Ev("files.create", "", "raise"))
             /\ UNCHANGED <<UPLOADED_FILE_ID, remote>>
    /\ UNCHANGED <<u_vector_store, file_uploaded, vector_store, response,
                   c_caller, c_plan, ci, clock, polls>>

UCreateVectorStore ==
    /\ pc = "u_create_vs"
    /\ \E ok \in BOOLEAN :
        IF ok
        THEN /\ u_vector_store' = VsId
             /\ remote' = remote \cup {VsId}
             /\ log' = Append(log, Ev("vector_stores.create", VsId, "ok"))
             /\ pc' = "u_attach"
             /\ UNCHANGED exc
        ELSE /\ RaiseInTry("APIError")
             /\ log' = Append(log, Ev("vector_stores.create", "", "raise"))
             /\ UNCHANGED <<u_vector_store, remote>>
    /\ UNCHANGED <<UPLOADED_FILE_ID, file_uploaded, vector_store, response,
                   c_caller, c_plan, ci, clock, polls>>

UAttachFile ==
    /\ pc = "u_attach"
    /\ \E ok \in BOOLEAN :
        IF ok
        THEN /\ log' = Append(log, Ev("vector_stores.files.create", UPLOADED_FILE_ID, "ok"))
             /\ pc' = "u_poll"
             /\ UNCHANGED exc
        ELSE /\ RaiseInTry("APIError")
             /\ log' = Append(log, Ev("vector_stores.files.create", UPLOADED_FILE_ID, "raise"))
    /\ UNCHANGED <<UPLOADED_FILE_ID, remote, u_vector_store, file_uploaded,
                   vector_store, response, c_caller, c_plan, ci, clock, polls>>

\* Variants of the branch, each a slip the loop could contain.
NextAfterStatus_CompletedIgnored(s) ==
    IF s = "failed" THEN "u_last_error" ELSE "u_sleep"

NextAfterStatus_NoDelay(s) ==
    IF s = "completed" THEN "u_return"
    ELSE IF s = "failed" THEN "u_last_error"
    ELSE "u_poll"

NextAfterStatus_MaxAttempts(s) ==
    IF s = "completed" THEN "u_return"
    ELSE IF s = "failed" THEN "u_last_error"
    ELSE IF polls >= 2 THEN "u_return_none"
    ELSE "u_sleep"

\* The branch taken on the status a poll returns (main.py lines 79-88):
\* the next control location.
NextAfterStatus(s) ==
    IF s = "completed" THEN "u_return"
    ELSE IF s = "failed" THEN "u_last_error"
    ELSE "u_sleep"

\* One status check.  `record` says whether the history variables take the
\* check; the program state changes the same way in both cases.  A check that
\* leaves the loop is always recorded.
UPoll(record) ==
    /\ pc = "u_poll"
    /\ \E r \in Statuses \cup {"raise"} :
        LET rec == record \/ r = "raise" \/ NextAfterStatus(r) # "u_sleep" IN
        /\ IF r = "raise"
           THEN /\ RaiseInTry("APIError")
                /\ UNCHANGED file_uploaded
           ELSE /\ file_uploaded' = r
                /\ pc' = NextAfterStatus(r)
                /\ UNCHANGED exc
        /\ log' = IF rec THEN Append(log, Ev("vector_stores.files.poll", u_vector_store, r))
                  ELSE log
        /\ polls' = IF record THEN polls + 1 ELSE polls
    /\ UNCHANGED <<UPLOADED_FILE_ID, remote, u_vector_store, vector_store,
                   response, c_caller, c_plan, ci, clock>>

USleep(record) ==
    /\ pc = "u_sleep"
    /\ pc' = "u_poll"
    /\ clock' = IF record THEN clock + PollDelay ELSE clock
    /\ log' = IF record THEN Append(log, Ev("time.sleep", "", "ok")) ELSE log
    /\ UNCHANGED <<UPLOADED_FILE_ID, remote, u_vector_store, file_uploaded,
                   vector_store, response, exc, c_caller, c_plan, ci, polls>>

\* ------------------------------------------------------------------ cleanup
\* The deletions one call of cleanup goes through, in order: the vector
\* stores, the responses, then the uploaded file.
RECURSIVE Tagged(_, _)
Tagged(kind, ids) ==
    IF ids = <<>> THEN <<>>
    ELSE <<[kind |-> kind, id |-> Head(ids)]>> \o Tagged(kind, Tail(ids))

\* Variant: the uploaded file is left alone.
CleanupPlan_NoFile(vector_store_ids, response_ids) ==
    Tagged("vector_store", vector_store_ids) \o Tagged("response", response_ids)

\* The plan of main.py lines 97-112.
CleanupPlan(vector_store_ids, response_ids) ==
    Tagged("vector_store", vector_store_ids)
        \o Tagged("response", response_ids)
        \o <<[kind |-> "file", id |-> UPLOADED_FILE_ID]>>

\* Variant: the first loop has no try/except.
DeleteCaught_ResponsesOnly(kind) == kind = "response"

\* Which deletions sit inside a try/except of cleanup.
DeleteCaught(kind) == kind \in {"vector_store", "response"}

DeleteOp(kind) ==
    IF kind = "vector_store" THEN "vector_stores.delete"
    ELSE IF kind = "response" THEN "responses.delete"
    ELSE "files.delete"

CallCleanup(caller, vector_store_ids, response_ids) ==
    /\ c_caller' = caller
    /\ c_plan' = CleanupPlan(vector_store_ids, response_ids)
    /\ ci' = 1
    /\ pc' = "c_loop"

\* The error detail is read with a call, file_uploaded.last_error(), which may
\* raise; only after it returns is cleanup called.
ULastError ==
    /\ pc = "u_last_error"
    /\ \E ok \in BOOLEAN :
        IF ok
        THEN /\ CallCleanup("upload", <<u_vector_store>>, <<>>)
             /\ log' = log \o <<Ev("print", "File batch failed", "last_error"),
                                Ev("cleanup", "upload", "call")>>
             /\ UNCHANGED exc
        ELSE /\ RaiseInTry("TypeError")
             /\ log' = Append(log, Ev("last_error", "", "raise"))
             /\ UNCHANGED <<c_caller, c_plan, ci>>
    /\ UNCHANGED <<UPLOADED_FILE_ID, remote, u_vector_store, file_uploaded,
                   vector_store, response, clock, polls>>

\* One deletion of the plan.  Deleting an id the service does not hold raises;
\* deleting one it holds may still raise.
CleanupDelete ==
    /\ pc = "c_loop"
    /\ ci <= Len(c_plan)
    /\ LET d == c_plan[ci] IN
       \E ok \in (IF d.id \in remote THEN BOOLEAN ELSE {FALSE}) :
        IF ok
        THEN /\ remote' = remote \ {d.id}
             /\ log' = Append(log, Ev(DeleteOp(d.kind), d.id, "ok"))
             /\ ci' = ci + 1
             /\ UNCHANGED <<pc, exc>>
        ELSE IF DeleteCaught(d.kind)
        THEN /\ log' = Append(log, Ev(DeleteOp(d.kind), d.id, "caught"))
             /\ ci' = ci + 1
             /\ UNCHANGED <<pc, exc, remote>>
        ELSE /\ log' = log \o <<Ev(DeleteOp(d.kind), d.id, "escaped"),
                                Ev("cleanup", c_caller, "raise")>>
             /\ pc' = IF c_caller = "upload" THEN "m_except" ELSE "m_raised"
             /\ exc' = "APIError"
             /\ UNCHANGED <<ci, remote>>
    /\ UNCHANGED <<UPLOADED_FILE_ID, u_vector_store, file_uploaded, vector_store,
                   response, c_caller, c_plan, clock, polls>>

CleanupReturn ==
    /\ pc = "c_loop"
    /\ ci > Len(c_plan)
    /\ log' = Append(log, Ev("cleanup", c_caller, "return"))
    /\ pc' = IF c_caller = "upload" THEN "u_return_none" ELSE "m_done"
    /\ UNCHANGED <<UPLOADED_FILE_ID, remote, u_vector_store, file_uploaded,
                   vector_store, response, exc, c_caller, c_plan, ci, clock, polls>>

\* ------------------------------------------ returns of upload_to_vector_store
UReturnNone ==
    /\ pc = "u_return_none"
    /\ vector_store' = NoneV
    /\ log' = Append(log, Ev("upload_to_vector_store", NoneV, "return"))
    /\ pc' = "m_responses_create"
    /\ UNCHANGED <<UPLOADED_FILE_ID, remote, u_vector_store, file_uploaded,
                   response, exc, c_caller, c_plan, ci, clock, polls>>

UReturnStore ==
    /\ pc = "u_return"
    /\ vector_store' = u_vector_store
    /\ log' = Append(log, Ev("upload_to_vector_store", u_vector_store, "return"))
    /\ pc' = "m_responses_create"
    /\ UNCHANGED <<UPLOADED_FILE_ID, remote, u_vector_store, file_uploaded,
                   response, exc, c_caller, c_plan, ci, clock, polls>>

\* --------------------------------------------------------------------- main
\* Variant: only an unbound name stops the request, None is passed on.
RequestArgsRaise_Never(vs) == vs = Unbound

\* Building the request reads vector_store.id, which raises AttributeError
\* when upload_to_vector_store returned None.
RequestArgsRaise(vs) == vs = NoneV

MResponsesCreate ==
    /\ pc = "m_responses_create"
    /\ IF RequestArgsRaise(vector_store)
       THEN /\ RaiseInTry("AttributeError")
            /\ UNCHANGED <<response, remote, log>>
       ELSE \E ok \in BOOLEAN :
            IF ok
            THEN /\ response' = RespId
                 /\ remote' = remote \cup {RespId}
                 /\ log' = Append(log, Ev("responses.create", vector_store, "ok"))
                 /\ pc' = "m_dump"
                 /\ UNCHANGED exc
            ELSE /\ RaiseInTry("APIError")
                 /\ log' = Append(log, Ev("responses.create", vector_store, "raise"))
                 /\ UNCHANGED <<response, remote>>
    /\ UNCHANGED <<UPLOADED_FILE_ID, u_vector_store, file_uploaded, vector_store,
                   c_caller, c_plan, ci, clock, polls>>

MDump ==
    /\ pc = "m_dump"
    /\ pc' = "m_call_cleanup"
    /\ UNCHANGED <<UPLOADED_FILE_ID, remote, u_vector_store, file_uploaded,
                   vector_store, response, exc, c_caller, c_plan, ci, log, clock, polls>>

MExcept ==
    /\ pc = "m_except"
    /\ log' = Append(log, Ev("print", "An error occurred", exc))
    /\ exc' = ""
    /\ pc' = "m_call_cleanup"
    /\ UNCHANGED <<UPLOADED_FILE_ID, remote, u_vector_store, file_uploaded,
                   vector_store, response, c_caller, c_plan, ci, clock, polls>>

\* Evaluating the arguments of the final cleanup call, [vector_store.id] and
\* then [response.id], outside the try statement: the exception it raises, ""
\* if none.
CleanupArgsError(vs, resp) ==
    IF vs = Unbound THEN "UnboundLocalError"
    ELSE IF vs = NoneV THEN "AttributeError"
    ELSE IF resp = Unbound THEN "UnboundLocalError"
    ELSE ""

MCallCleanup ==
    /\ pc = "m_call_cleanup"
    /\ IF CleanupArgsError(vector_store, response) # ""
       THEN /\ pc' = "m_raised"
            /\ exc' = CleanupArgsError(vector_store, response)
            /\ UNCHANGED <<c_caller, c_plan, ci, log>>
       ELSE /\ CallCleanup("main", <<vector_store>>, <<response>>)
            /\ log' = Append(log, Ev("cleanup", "main", "call"))
            /\ UNCHANGED exc
    /\ UNCHANGED <<UPLOADED_FILE_ID, remote, u_vector_store, file_uploaded,
                   vector_store, response, clock, polls>>

\* ----------------------------------------------------------- specifications
Step ==
    \/ UCheckFileId
    \/ UOpenFile
    \/ UFilesCreate
    \/ UCreateVectorStore
    \/ UAttachFile
    \/ ULastError
    \/ CleanupDelete
    \/ CleanupReturn
    \/ UReturnNone
    \/ UReturnStore
    \/ MResponsesCreate
    \/ MDump
    \/ MExcept
    \/ MCallCleanup

\* The history records at most MaxPolls status checks.
PollBounded == polls < MaxPolls /\ UPoll(TRUE)
SleepBounded == USleep(TRUE)

Next == Step \/ PollBounded \/ SleepBounded

Spec == Init /\ [][Next]_vars

\* The same program with no bound on the number of checks: the history takes
\* the first MaxPolls checks and the delays between them, the program goes on.
PollUnbounded == UPoll(polls < MaxPolls)
SleepUnbounded == USleep(polls < MaxPolls)

LiveNext == Step \/ PollUnbounded \/ SleepUnbounded

\* The program is sequential and blocking: a step that can be taken is taken.
LiveSpec == Init /\ [][LiveNext]_vars /\ WF_vars(LiveNext)

\* ------------------------------------------------------- reading the history
LogIdx == 1..Len(log)

PollAt(i, s) == log[i].op = "vector_stores.files.poll" /\ log[i].res = s

IsDelete(e) == e.op \in {"vector_stores.delete", "responses.delete", "files.delete"}

IsLoopEvent(e) == e.op \in {"vector_stores.files.poll", "time.sleep"}

\* The status checks and delays of the polling loop, in order.
LoopLog == SelectSeq(log, IsLoopEvent)

\* The id the service gave the vector store this run created, "" if none.
CreatedStore ==
    IF \E i \in LogIdx : log[i].op = "vector_stores.create" /\ log[i].res = "ok"
    THEN (CHOOSE e \in {log[i] : i \in LogIdx} :
             e.op = "vector_stores.create" /\ e.res = "ok").arg
    ELSE ""

\* Where the running or finished cleanup call starts in the history, 0 if
\* cleanup was never called.
CleanupStart ==
    IF \E i \in LogIdx : log[i].op = "cleanup" /\ log[i].res = "call"
    THEN CHOOSE i \in LogIdx :
            /\ log[i].op = "cleanup" /\ log[i].res = "call"
            /\ \A j \in LogIdx : (log[j].op = "cleanup" /\ log[j].res = "call") => j <= i
    ELSE 0

CleanupEnded ==
    \E i \in LogIdx : log[i].op = "cleanup" /\ log[i].res \in {"return", "raise"}

\* The deletions attempted by that cleanup call, as <<op, id>> pairs.
RECURSIVE OpArg(_)
OpArg(evs) ==
    IF evs = <<>> THEN <<>>
    ELSE <<(<<Head(evs).op, Head(evs).arg>>)>> \o OpArg(Tail(evs))

CleanupDeletes ==
    IF CleanupStart = 0 THEN <<>>
    ELSE OpArg(SelectSeq(SubSeq(log, CleanupStart + 1, Len(log)), IsDelete))

IsPrefix(a, b) == Len(a) <= Len(b) /\ SubSeq(b, 1, Len(a)) = a

\* ------------------------------------------------------------------- claims

\* C1: a status check that reports "completed" is followed at once by the
\* return of the created vector store: no further check, delay or deletion
\* comes between the check and the return, and main receives the store.
C1_CompletedReturnsStore ==
    \A i \in LogIdx : PollAt(i, "completed") =>
        /\ CreatedStore # ""
        /\ i = Len(log) => pc = "u_return"
        /\ i < Len(log) =>
            /\ log[i + 1] = Ev("upload_to_vector_store", CreatedStore, "return")
            /\ vector_store = CreatedStore

C1_Witness ==
    /\ pc = "m_responses_create"
    /\ file_uploaded = "completed"
    /\ vector_store = VsId
    /\ log[Len(log)] = Ev("upload_to_vector_store", VsId, "return")

\* C2 (as claimed): whenever a status check reports "failed", the error detail
\* is reported next and no further check is made, and once control is back in
\* main the function has handed back no vector store and a delete of the
\* vector store it created has been issued.
C2_FailedSignalsAndDeletes ==
    \A i \in LogIdx : PollAt(i, "failed") =>
        /\ \A j \in LogIdx : j > i => log[j].op # "vector_stores.files.poll"
        /\ i = Len(log) => pc = "u_last_error"
        /\ i < Len(log) => log[i + 1] = Ev("print", "File batch failed", "last_error")
        /\ pc \in {"m_responses_create", "m_dump", "m_except", "m_call_cleanup",
                   "m_done", "m_raised"} =>
            /\ vector_store # CreatedStore
            /\ \E k \in LogIdx :
                /\ k > i
                /\ log[k].op = "vector_stores.delete"
                /\ log[k].arg = CreatedStore

\* C3: in the polling loop every non-terminal status is followed by one delay
\* of 5 seconds and then the next check, so a "completed" that comes after k
\* non-terminal statuses is check k+1, preceded by exactly k delays, and the
\* loop ends there with success.
C3_ChecksAndDelays ==
    LET L == LoopLog
        NonTerminal(e) == e.op = "vector_stores.files.poll"
                          /\ e.res \notin {"completed", "failed", "raise"}
        Sleeps == Cardinality({i \in 1..Len(L) : L[i].op = "time.sleep"})
        Checks == Cardinality({i \in 1..Len(L) : L[i].op = "vector_stores.files.poll"})
    IN  /\ clock = 5 * Sleeps
        /\ polls = Checks
        /\ \A i \in 1..Len(L) :
            /\ L[i].op = "time.sleep" =>
                /\ i > 1 /\ NonTerminal(L[i - 1])
                /\ i < Len(L) => L[i + 1].op = "vector_stores.files.poll"
            /\ NonTerminal(L[i]) =>
                /\ i < Len(L) => L[i + 1].op = "time.sleep"
                /\ i = Len(L) => pc = "u_sleep"
            /\ (L[i].op = "vector_stores.files.poll" /\ L[i].res = "completed") =>
                /\ i = Len(L)
                /\ \A j \in 1..(i - 1) : L[j].op = "vector_stores.files.poll" => NonTerminal(L[j])
                /\ Checks = Sleeps + 1
                /\ i = 2 * Sleeps + 1
                /\ clock = 5 * (Checks - 1)
                /\ pc \notin {"u_poll", "u_sleep", "u_last_error", "u_return_none"}
                /\ c_caller # "upload"

C3_Witness ==
    /\ pc = "m_responses_create"
    /\ vector_store = VsId
    /\ clock = 10
    /\ LoopLog = <<Ev("vector_stores.files.poll", VsId, "in_progress"),
                   Ev("time.sleep", "", "ok"),
                   Ev("vector_stores.files.poll", VsId, "in_progress"),
                   Ev("time.sleep", "", "ok"),
                   Ev("vector_stores.files.poll", VsId, "completed")>>

\* C4 (as claimed): a delete that fails because the resource does not exist
\* never propagates out of cleanup; a delete that escapes cleanup is then one
\* of a resource the service holds.
C4_MissingResourceNeverPropagates ==
    \A i \in LogIdx : (IsDelete(log[i]) /\ log[i].res = "escaped") => log[i].arg \in remote

\* C5 (as claimed): no exception escapes main.
C5_NoExceptionEscapesMain == pc # "m_raised"

\* C6 (as claimed): the cleanup that a failed job triggers issues no delete of
\* the uploaded file.
C6_FailedCleanupKeepsFile ==
    c_caller = "upload" => \A i \in LogIdx : log[i].op # "files.delete"

\* C6 (amended): the cleanup that a failed job triggers issues a delete of the
\* vector store and then a delete of the uploaded file as well.
C6_FailedCleanupDeletesStoreAndFile ==
    (c_caller = "upload" /\ CleanupEnded) =>
        \E i, j \in LogIdx :
            /\ CleanupStart < i /\ i < j
            /\ log[i].op = "vector_stores.delete" /\ log[i].arg = CreatedStore
            /\ log[j].op = "files.delete" /\ log[j].arg = UPLOADED_FILE_ID
            /\ UPLOADED_FILE_ID # ""

C6_Witness ==
    /\ file_uploaded = "failed"
    /\ \E i \in LogIdx : log[i] = Ev("cleanup", "upload", "return")
    /\ \E i \in LogIdx : log[i].op = "files.delete" /\ log[i].res = "ok"

\* C7: within one call of cleanup the deletions attempted are, in order, every
\* vector store id, every response id, then the uploaded file, whichever of
\* the vector-store and response deletions failed.
C7_FailedDeleteDoesNotAbort ==
    LET expected ==
            IF c_caller = "upload"
            THEN << <<"vector_stores.delete", CreatedStore>>,
                    <<"files.delete", UPLOADED_FILE_ID>> >>
            ELSE << <<"vector_stores.delete", CreatedStore>>,
                    <<"responses.delete", response>>,
                    <<"files.delete", UPLOADED_FILE_ID>> >>
    IN  c_caller # "" =>
            /\ IsPrefix(CleanupDeletes, expected)
            /\ pc = "c_loop" => Len(CleanupDeletes) = ci - 1
            /\ CleanupEnded => CleanupDeletes = expected

C7_Witness ==
    /\ c_caller = "main"
    /\ CleanupEnded
    /\ \E i \in LogIdx : log[i] = Ev("vector_stores.delete", VsId, "caught")
    /\ \E i \in LogIdx : log[i] = Ev("responses.delete", RespId, "caught")
    /\ \E i \in LogIdx : log[i].op = "files.delete"

\* C9: a response generation request is issued only after a status check
\* reported "completed", and never in a run where one reported "failed".
C9_ResponseOnlyAfterCompleted ==
    \A i \in LogIdx : log[i].op = "responses.create" =>
        /\ \E j \in 1..(i - 1) : PollAt(j, "completed")
        /\ \A j \in LogIdx : ~PollAt(j, "failed")
        /\ log[i].arg = CreatedStore

C9_Witness ==
    /\ file_uploaded = "failed"
    /\ vector_store = NoneV
    /\ pc = "m_raised"
    /\ \E i \in LogIdx : log[i] = Ev("print", "An error occurred", "AttributeError")

\* C10 (as claimed): when main has ended, every resource the run created has
\* had a delete issued for it.
C10_EveryCreatedResourceDeleted ==
    pc \in {"m_done", "m_raised"} =>
        \A i \in LogIdx :
            (log[i].op \in {"files.create", "vector_stores.create", "responses.create"}
                /\ log[i].res = "ok") =>
            \E j \in LogIdx : j > i /\ IsDelete(log[j]) /\ log[j].arg = log[i].arg

\* C8: the loop is left, other than by an exception, only on a check that
\* reports "completed" or "failed"; every other status leads to a delay and
\* then another check; and a run whose checks never report "completed" or
\* "failed" and never raise is in a check, and in a delay, infinitely often.
C8_LoopExit ==
    [][(pc = "u_poll" /\ pc' # "m_except") =>
            /\ file_uploaded' \in {"completed", "failed"} => pc' \in {"u_return", "u_last_error"}
            /\ file_uploaded' \notin {"completed", "failed"} => pc' = "u_sleep"]_vars

C8_DelayThenCheck ==
    [][pc = "u_sleep" =>
            /\ pc' = "u_poll"
            /\ clock' \in {clock, clock + 5}
            /\ polls < MaxPolls => clock' = clock + 5]_vars

C8_PollsForever ==
    [](pc \in {"u_poll", "u_sleep"} =>
          \/ <>(file_uploaded \in {"completed", "failed"})
          \/ <>(\E i \in LogIdx : PollAt(i, "raise"))
          \/ ([]<>(pc = "u_poll") /\ []<>(pc = "u_sleep")))

C8_UnboundedPolling == C8_LoopExit /\ C8_DelayThenCheck /\ C8_PollsForever

C8_Witness ==
    /\ polls = MaxPolls
    /\ pc = "u_sleep"
    /\ file_uploaded = "cancelled"
    /\ \A i \in LogIdx : ~PollAt(i, "completed") /\ ~PollAt(i, "failed")

====
